---- MODULE Spec2Model ----
(***************************************************************************)
(* chi::Allocator<T>, chi::StdAllocator<T> and chi::FutureAllocator<T>     *)
(* (allocator.h) as a state machine over an explicit heap.                 *)
(*                                                                         *)
(* One allocator object is constructed in Init.  Every public operation    *)
(* is one action; the body of the operation is an operator that folds the  *)
(* raw memory steps it performs (malloc, placement new, element read,      *)
(* destructor call, ::free) over the heap, in the order of the code.       *)
(***************************************************************************)
EXTENDS Integers, Sequences, FiniteSets, TLC

\* ---- bounds of the model ------------------------------------------------
SizeBits == 6
MaxArg == 2
MaxCount == 3
MaxBlocks == 3
MaxVal == 1
Appends == 10                \* the grow(1) calls of the append scenario

\* ---- constants of the program -------------------------------------------
SizeMod == 2 ^ SizeBits                 \* Size is an unsigned machine integer
NULL == 0                               \* the null pointer
FREED == 0 - 1                          \* (T*)-1, the debug sentinel
NoElem == 0 - 1                         \* raw memory holding no constructed T
DefaultT == 0                           \* the value of T()
Values == 0 .. MaxVal                   \* values of T
Multipliers == {<<3, 2>>, <<2, 1>>, <<1, 1>>, <<1, 2>>}   \* num/den
\* the arrays and lists handed to allocate( count, copy ): MaxArg elements
\* whose values differ from one index to the next
Sources == {[k \in 1 .. MaxArg |-> (k + s) % (MaxVal + 1)] : s \in Values}

VARIABLES
    kind,        \* "Std" or "Future": the dynamic type of the object
    debug,       \* TRUE iff NDEBUG is not defined
    multiplier,  \* FutureAllocator::multiplier as <<num, den>>
    __ptr,       \* StdAllocator::__ptr : NULL, FREED or a block id
    _count,      \* StdAllocator::_count
    _cap,        \* StdAllocator::_cap
    heap,        \* the blocks handed out by malloc so far, by id
    log,         \* the memory steps of the last operation, in order
    errs,        \* kinds of undefined memory behaviour seen so far
    last,        \* the last operation called, its argument and outcome
    state,       \* lifecycle of the buffer as the completed calls define it
    valid,       \* every call so far was made within its documented contract
    halted,      \* a CHI_ASSERT has stopped the program
    given,       \* the values the last allocate was asked to construct
    ones         \* grow(1) calls made in a row since allocate(0), -1: none

vars == <<kind, debug, multiplier, __ptr, _count, _cap, heap, log, errs,
          last, state, valid, halted, given, ones>>

\* ---- the heap -----------------------------------------------------------
Ev(op, p, i, v) == [op |-> op, p |-> p, i |-> i, v |-> v]

Live(m, p) == p \in 1 .. Len(m.heap) /\ m.heap[p].live

InBlock(m, p, i) == Live(m, p) /\ i >= 0 /\ i < m.heap[p].size

Constructed(m, p, i) == InBlock(m, p, i) /\ m.heap[p].elems[i + 1] # NoElem

\* ::malloc( n * sizeof(T) ): a fresh block of n raw slots, or 0; the step
\* is logged with the block in p and the number of slots in i
malloc(m, n, fail) ==
    IF fail
    THEN [m |-> [m EXCEPT !.log = Append(@, Ev("malloc", NULL, n, NoElem))],
          p |-> NULL]
    ELSE LET id == Len(m.heap) + 1
         IN [m |-> [m EXCEPT
                      !.heap = Append(@, [live |-> TRUE, size |-> n,
                                          elems |-> [k \in 1 .. n |-> NoElem]]),
                      !.log = Append(@, Ev("malloc", id, n, NoElem))],
             p |-> id]

\* new (p + i) T( v )
PlacementNew(m, p, i, v) ==
    IF InBlock(m, p, i)
    THEN [m EXCEPT !.heap[p].elems[i + 1] = v,
                   !.log = Append(@, Ev("new", p, i, v)),
                   !.errs = IF m.heap[p].elems[i + 1] # NoElem
                            THEN @ \cup {"new over live element"} ELSE @]
    ELSE [m EXCEPT !.log = Append(@, Ev("new", p, i, v)),
                   !.errs = @ \cup {"new outside block"}]

\* ReadValue with the index fixed at 0
ReadValue_First(m, p, i, junk) ==
    IF Constructed(m, p, 0) THEN m.heap[p].elems[1] ELSE junk

\* the value of p[i]; an element that is not there reads as anything
ReadValue(m, p, i, junk) ==
    IF Constructed(m, p, i) THEN m.heap[p].elems[i + 1] ELSE junk

\* the read of p[i] as a memory step
ReadElem(m, p, i) ==
    [m EXCEPT !.log = Append(@, Ev("read", p, i, NoElem)),
              !.errs = IF Constructed(m, p, i) THEN @
                       ELSE @ \cup {"read of no element"}]

\* p[i].~T()
Destroy(m, p, i) ==
    IF Constructed(m, p, i)
    THEN [m EXCEPT !.heap[p].elems[i + 1] = NoElem,
                   !.log = Append(@, Ev("dtor", p, i, NoElem))]
    ELSE [m EXCEPT !.log = Append(@, Ev("dtor", p, i, NoElem)),
                   !.errs = @ \cup {"dtor of no element"}]

\* ::free( p )
release(m, p) ==
    IF p = NULL
    THEN [m EXCEPT !.log = Append(@, Ev("free", p, 0, NoElem))]
    ELSE IF Live(m, p)
    THEN [m EXCEPT
            !.heap[p] = [live |-> FALSE, size |-> 0, elems |-> <<>>],
            !.log = Append(@, Ev("free", p, 0, NoElem)),
            !.errs = IF \E k \in 1 .. m.heap[p].size : m.heap[p].elems[k] # NoElem
                     THEN @ \cup {"block released with live elements"} ELSE @]
    ELSE [m EXCEPT !.log = Append(@, Ev("free", p, 0, NoElem)),
                   !.errs = @ \cup {"free of no block"}]

\* ---- loops of the code ---------------------------------------------------
\* each loop takes the memory n that its step leaves and goes on from n
\* for ( Size i = from; i < to; i++ ) new (p + i) T( init[i] )
RECURSIVE ConstructLoop(_, _, _, _, _)
ConstructLoop(m, p, i, to, init) ==
    IF i < to
    THEN CHOOSE r \in {ConstructLoop(n, p, i + 1, to, init) :
                          n \in {PlacementNew(m, p, i, init[i])}} : TRUE
    ELSE m

\* for ( ; i < count; i++ ) new (new_ptr + i) T( old[i] )
RECURSIVE CopyLoop(_, _, _, _, _, _)
CopyLoop(m, new_ptr, old, i, count, junk) ==
    IF i < count
    THEN CHOOSE r \in {CopyLoop(n, new_ptr, old, i + 1, count, junk) :
                          n \in {PlacementNew(ReadElem(m, old, i), new_ptr, i,
                                              ReadValue(m, old, i, junk))}} :
             TRUE
    ELSE m

\* for ( Size j = 0; j < count; j++ ) p[j].~T()
RECURSIVE DestructLoop(_, _, _, _)
DestructLoop(m, p, j, count) ==
    IF j < count
    THEN CHOOSE r \in {DestructLoop(n, p, j + 1, count) :
                          n \in {Destroy(m, p, j)}} : TRUE
    ELSE m

\* for ( ; new_count < count; count-- ) p[count - 1].~T()
RECURSIVE ShrinkLoop(_, _, _, _)
ShrinkLoop(m, p, new_count, count) ==
    IF new_count < count
    THEN CHOOSE r \in {ShrinkLoop(n, p, new_count, count - 1) :
                          n \in {Destroy(m, p, count - 1)}} : TRUE
    ELSE m

\* ---- the operations, as the code writes them ------------------------------
\* CHI_ASSERT( condition, message ) as its three uses in allocator.h read:
\* in a debug build the program stops when the condition named by the
\* message holds; in a build with NDEBUG it does nothing
CHI_ASSERT(condition) == debug /\ condition

Self == [ptr |-> __ptr, count |-> _count, cap |-> _cap]

Mem == [heap |-> heap, log |-> <<>>, errs |-> errs]

Ret(self, m, out) == [self |-> self, m |-> m, out |-> out]

\* FloatToSize with the product rounded up instead of truncated
FloatToSize_RoundUp(mul, n) ==
    (((mul[1] * n) + mul[2] - 1) \div mul[2]) % SizeMod

\* Size s = multiplier * n : the float product converted to Size
FloatToSize(mul, n) == ((mul[1] * n) \div mul[2]) % SizeMod

\* the initializers INIT of ONE_ALLOCATE, as the value given to element i
InitDefault(count) == [i \in 0 .. count - 1 |-> DefaultT]

InitFill(count, def_val) == [i \in 0 .. count - 1 |-> def_val]

\* InitCopy with every element copied from copy[0]
InitCopy_First(count, copy) == [i \in 0 .. count - 1 |-> copy[1]]

InitCopy(count, copy) == [i \in 0 .. count - 1 |-> copy[i + 1]]

\* StdAllocator: #define ONE_ALLOCATE( INIT )
StdOneAllocate(self, m, count, init, fail) ==
    IF CHI_ASSERT(self.ptr # NULL /\ self.ptr # FREED)
    THEN Ret(self, m, "halt")
    ELSE IF count = 0
    THEN Ret([self EXCEPT !.ptr = NULL, !.count = count], m, "ok")
    ELSE LET r == malloc(m, count, fail)
         IN IF r.p = NULL
            THEN Ret(self, r.m, "AllocException")
            ELSE Ret([self EXCEPT !.ptr = r.p, !.count = count],
                     ConstructLoop(r.m, r.p, 0, count, init), "ok")

\* FutureOneAllocate with malloc( count * sizeof(T) ) for the block
FutureOneAllocate_MallocCount(self, m, count, init, fail) ==
    LET cap == FloatToSize(multiplier, count)
        s1 == [self EXCEPT !.cap = cap]
    IN IF count = 0
       THEN Ret([s1 EXCEPT !.ptr = NULL, !.count = count], m, "ok")
       ELSE LET r == malloc(m, count, fail)
            IN IF r.p = NULL
               THEN Ret(s1, r.m, "AllocException")
               ELSE Ret([s1 EXCEPT !.ptr = r.p, !.count = count],
                        ConstructLoop(r.m, r.p, 0, count, init), "ok")

\* FutureAllocator: #define ONE_ALLOCATE( INIT )
FutureOneAllocate(self, m, count, init, fail) ==
    LET cap == FloatToSize(multiplier, count)
        s1 == [self EXCEPT !.cap = cap]
    IN IF count = 0
       THEN Ret([s1 EXCEPT !.ptr = NULL, !.count = count], m, "ok")
       ELSE LET r == malloc(m, cap, fail)
            IN IF r.p = NULL
               THEN Ret(s1, r.m, "AllocException")
               ELSE Ret([s1 EXCEPT !.ptr = r.p, !.count = count],
                        ConstructLoop(r.m, r.p, 0, count, init), "ok")

\* virtual void allocate( Size count, ... )
allocate(self, m, count, init, fail) ==
    IF kind = "Future"
    THEN FutureOneAllocate(self, m, count, init, fail)
    ELSE StdOneAllocate(self, m, count, init, fail)

\* destruct with the loop running from the last element down
destruct_Descending(self, m) == ShrinkLoop(m, self.ptr, 0, self.count)

\* StdAllocator::destruct
destruct(self, m) == DestructLoop(m, self.ptr, 0, self.count)

\* free without the write of the sentinel
free_KeepsPointer(self, m) ==
    IF CHI_ASSERT(self.ptr = FREED)
    THEN Ret(self, m, "halt")
    ELSE Ret(self, release(destruct(self, m), self.ptr), "ok")

\* free without the call of destruct
free_NoDestruct(self, m) ==
    IF CHI_ASSERT(self.ptr = FREED)
    THEN Ret(self, m, "halt")
    ELSE Ret([self EXCEPT !.ptr = IF debug THEN FREED ELSE @],
             release(m, self.ptr), "ok")

\* StdAllocator::free
free(self, m) ==
    IF CHI_ASSERT(self.ptr = FREED)
    THEN Ret(self, m, "halt")
    ELSE Ret([self EXCEPT !.ptr = IF debug THEN FREED ELSE @],
             release(destruct(self, m), self.ptr), "ok")

\* Std_grow with the old elements destructed before they are copied
Std_grow_DestructFirst(self, m, increment, fail, junk) ==
    LET new_size == (self.count + increment) % SizeMod
        r == malloc(m, new_size, fail)
    IN IF r.p = NULL
       THEN Ret(self, r.m, "AllocException")
       ELSE LET m1 == DestructLoop(r.m, self.ptr, 0, self.count)
                m2 == CopyLoop(m1, r.p, self.ptr, 0, self.count, junk)
                m3 == release(m2, self.ptr)
                m4 == ConstructLoop(m3, r.p, self.count, new_size,
                                    InitDefault(new_size))
            IN Ret([ptr |-> r.p, cap |-> new_size,
                    count |-> IF self.count < new_size
                              THEN new_size ELSE self.count],
                   m4, "ok")

\* StdAllocator::_grow
Std_grow(self, m, increment, fail, junk) ==
    LET new_size == (self.count + increment) % SizeMod
        r == malloc(m, new_size, fail)
    IN IF r.p = NULL
       THEN Ret(self, r.m, "AllocException")
       ELSE LET m1 == CopyLoop(r.m, r.p, self.ptr, 0, self.count, junk)
                m2 == DestructLoop(m1, self.ptr, 0, self.count)
                m3 == release(m2, self.ptr)
                m4 == ConstructLoop(m3, r.p, self.count, new_size,
                                    InitDefault(new_size))
            IN Ret([ptr |-> r.p, cap |-> new_size,
                    count |-> IF self.count < new_size
                              THEN new_size ELSE self.count],
                   m4, "ok")

\* Future_grow without the update of _cap after a reallocation
Future_grow_StaleCap(self, m, increment, fail, junk) ==
    LET new_size == (self.count + increment) % SizeMod
        new_count == IF self.count < new_size THEN new_size ELSE self.count
    IN IF new_size > self.cap
       THEN LET new_capacity == FloatToSize(multiplier, new_size)
                r == malloc(m, new_capacity, fail)
            IN IF r.p = NULL
               THEN Ret(self, r.m, "AllocException")
               ELSE LET m1 == CopyLoop(r.m, r.p, self.ptr, 0, self.count, junk)
                        m2 == DestructLoop(m1, self.ptr, 0, self.count)
                        m3 == release(m2, self.ptr)
                        m4 == ConstructLoop(m3, r.p, self.count, new_size,
                                            InitDefault(new_size))
                    IN Ret([ptr |-> r.p, cap |-> self.cap,
                            count |-> new_count], m4, "ok")
       ELSE Ret([self EXCEPT !.count = new_count],
                ConstructLoop(m, self.ptr, self.count, new_size,
                              InitDefault(new_size)),
                "ok")

\* FutureAllocator::_grow
Future_grow(self, m, increment, fail, junk) ==
    LET new_size == (self.count + increment) % SizeMod
        new_count == IF self.count < new_size THEN new_size ELSE self.count
    IN IF new_size > self.cap
       THEN LET new_capacity == FloatToSize(multiplier, new_size)
                r == malloc(m, new_capacity, fail)
            IN IF r.p = NULL
               THEN Ret(self, r.m, "AllocException")
               ELSE LET m1 == CopyLoop(r.m, r.p, self.ptr, 0, self.count, junk)
                        m2 == DestructLoop(m1, self.ptr, 0, self.count)
                        m3 == release(m2, self.ptr)
                        m4 == ConstructLoop(m3, r.p, self.count, new_size,
                                            InitDefault(new_size))
                    IN Ret([ptr |-> r.p, cap |-> new_capacity,
                            count |-> new_count], m4, "ok")
       ELSE Ret([self EXCEPT !.count = new_count],
                ConstructLoop(m, self.ptr, self.count, new_size,
                              InitDefault(new_size)),
                "ok")

\* grow dispatched to the exact-fit _grow for both strategies
grow_ExactFit(self, m, increment, fail, junk) ==
    Std_grow(self, m, increment, fail, junk)

\* virtual void _grow( Size count ), called by Allocator::grow
grow(self, m, increment, fail, junk) ==
    IF kind = "Future"
    THEN Future_grow(self, m, increment, fail, junk)
    ELSE Std_grow(self, m, increment, fail, junk)

\* shrink that lowers the count without running the destructors
shrink_NoDtor(self, m, decrement) ==
    LET new_count == (self.count - decrement) % SizeMod
    IN Ret([self EXCEPT !.count = IF new_count < self.count
                                  THEN new_count ELSE @],
           m, "ok")

\* shrink that also lowers the capacity to the new count
shrink_TrimsCap(self, m, decrement) ==
    LET new_count == (self.count - decrement) % SizeMod
    IN Ret([self EXCEPT !.count = IF new_count < self.count
                                  THEN new_count ELSE @,
                        !.cap = IF new_count < self.count
                                THEN new_count ELSE @],
           ShrinkLoop(m, self.ptr, new_count, self.count), "ok")

\* StdAllocator::_shrink, called by Allocator::shrink
shrink(self, m, decrement) ==
    LET new_count == (self.count - decrement) % SizeMod
    IN Ret([self EXCEPT !.count = IF new_count < self.count
                                  THEN new_count ELSE @],
           ShrinkLoop(m, self.ptr, new_count, self.count), "ok")

\* resize that grows by the new count instead of by the difference
resize_GrowsByCount(self, m, count, fail, junk) ==
    IF count > self.count
    THEN grow(self, m, count % SizeMod, fail, junk)
    ELSE IF count < self.count
    THEN shrink(self, m, (self.count - count) % SizeMod)
    ELSE Ret(self, m, "ok")

\* Allocator::resize
resize(self, m, count, fail, junk) ==
    IF count > self.count
    THEN grow(self, m, (count - self.count) % SizeMod, fail, junk)
    ELSE IF count < self.count
    THEN shrink(self, m, (self.count - count) % SizeMod)
    ELSE Ret(self, m, "ok")

\* the check on the multiplier written as multiplier <= 1.0
FutureCtorHalts_NotAboveOne(mul) == CHI_ASSERT(mul[1] <= mul[2])

\* FutureAllocator::FutureAllocator : the check on the multiplier
FutureCtorHalts(mul) == CHI_ASSERT(mul[1] < mul[2])

\* ---- the state machine ----------------------------------------------------
\* StdAllocator() : __ptr(0), _count(0), _cap(0)
\* FutureAllocator( float multiplier = 1.5 )
Init ==
    /\ kind \in {"Std", "Future"}
    /\ debug \in BOOLEAN
    /\ multiplier \in (IF kind = "Future" THEN Multipliers ELSE {<<3, 2>>})
    /\ __ptr = NULL
    /\ _count = 0
    /\ _cap = 0
    /\ heap = <<>>
    /\ log = <<>>
    /\ errs = {}
    /\ last = [op |-> "new", arg |-> 0,
               out |-> IF kind = "Future" /\ FutureCtorHalts(multiplier)
                       THEN "halt" ELSE "ok"]
    /\ state = "Unallocated"
    /\ valid = TRUE
    /\ halted = (kind = "Future" /\ FutureCtorHalts(multiplier))
    /\ given = <<>>
    /\ ones = 0 - 1

\* the effect of a call that ran as r says
Return(op, arg, r) ==
    /\ __ptr' = r.self.ptr
    /\ _count' = r.self.count
    /\ _cap' = r.self.cap
    /\ heap' = r.m.heap
    /\ log' = r.m.log
    /\ errs' = r.m.errs
    /\ last' = [op |-> op, arg |-> arg, out |-> r.out]
    /\ halted' = (r.out = "halt")
    /\ UNCHANGED <<kind, debug, multiplier>>

\* the lifecycle after an allocate overload that ran as r says
Allocated(r) ==
    /\ state' = IF r.out = "ok" THEN "Allocated" ELSE state
    /\ valid' = (valid /\ state # "Allocated")

\* the program runs on until a CHI_ASSERT stops it; the caller is followed up
\* to its first call outside the contract and up to the first undefined
\* memory step, whose outcome is one more state and is not followed further
Running == ~halted /\ valid /\ errs = {}

CanMalloc == Len(heap) < MaxBlocks

\* what a read of this->__ptr[i], i < _count, can yield where no element is:
\* any value; no choice is needed when every element read is there
JunkValues ==
    IF \A i \in 0 .. _count - 1 :
           Constructed([heap |-> heap, log |-> log, errs |-> errs], __ptr, i)
    THEN {DefaultT} ELSE Values

\* void allocate( Size count = 0 )
AllocateDefault ==
    /\ Running /\ CanMalloc
    /\ \E count \in 0 .. MaxArg, fail \in BOOLEAN :
           \E r \in {allocate(Self, Mem, count, InitDefault(count), fail)} :
               /\ Return("allocate", count, r) /\ Allocated(r)
               /\ given' = [k \in 1 .. count |-> DefaultT]
               /\ UNCHANGED ones

\* void allocate( Size count, const T& def_val )
AllocateFill ==
    /\ Running /\ CanMalloc
    /\ \E count \in 0 .. MaxArg, def_val \in Values, fail \in BOOLEAN :
           \E r \in {allocate(Self, Mem, count, InitFill(count, def_val), fail)} :
               /\ Return("allocate_fill", count, r) /\ Allocated(r)
               /\ given' = [k \in 1 .. count |-> def_val]
               /\ UNCHANGED ones

\* void allocate( Size count, const T* copy )
AllocateCopyPtr ==
    /\ Running /\ CanMalloc
    /\ \E count \in 0 .. MaxArg, copy \in Sources, fail \in BOOLEAN :
           \E r \in {allocate(Self, Mem, count, InitCopy(count, copy), fail)} :
               /\ Return("allocate_ptr", count, r) /\ Allocated(r)
               /\ given' = SubSeq(copy, 1, count)
               /\ UNCHANGED ones

\* void allocate( Size count, const List<T>& copy )
AllocateCopyList ==
    /\ Running /\ CanMalloc
    /\ \E count \in 0 .. MaxArg, copy \in Sources, fail \in BOOLEAN :
           \E r \in {allocate(Self, Mem, count, InitCopy(count, copy), fail)} :
               /\ Return("allocate_list", count, r) /\ Allocated(r)
               /\ given' = SubSeq(copy, 1, count)
               /\ UNCHANGED ones

\* void grow( Size increment )
Grow ==
    /\ Running /\ CanMalloc
    /\ \E increment \in 0 .. MaxArg, fail \in BOOLEAN, junk \in JunkValues :
           /\ _count + increment <= MaxCount
           /\ \E r \in {grow(Self, Mem, increment, fail, junk)} :
                  /\ Return("grow", increment, r)
                  /\ state' = state
                  /\ valid' = (valid /\ state = "Allocated")
                  /\ given' = <<>>
                  /\ UNCHANGED ones

\* void shrink( Size decrement )
Shrink ==
    /\ Running
    /\ \E decrement \in 0 .. MaxArg :
           \E r \in {shrink(Self, Mem, decrement)} :
               /\ Return("shrink", decrement, r)
               /\ state' = state
               /\ valid' = (valid /\ state = "Allocated" /\ decrement <= _count)
               /\ given' = <<>>
               /\ UNCHANGED ones

\* void resize( Size count )
Resize ==
    /\ Running /\ CanMalloc
    /\ \E count \in 0 .. MaxCount, fail \in BOOLEAN, junk \in JunkValues :
           \E r \in {resize(Self, Mem, count, fail, junk)} :
               /\ Return("resize", count, r)
               /\ state' = state
               /\ valid' = (valid /\ state = "Allocated")
               /\ given' = <<>>
               /\ UNCHANGED ones

\* void free()
Free ==
    /\ Running
    /\ \E r \in {free(Self, Mem)} :
           /\ Return("free", 0, r)
           /\ state' = IF r.out = "ok" THEN "Freed" ELSE state
           /\ valid' = (valid /\ state = "Allocated")
           /\ given' = <<>>
           /\ UNCHANGED ones

Next ==
    \/ AllocateDefault
    \/ AllocateFill
    \/ AllocateCopyPtr
    \/ AllocateCopyList
    \/ Grow
    \/ Shrink
    \/ Resize
    \/ Free

Spec == Init /\ [][Next]_vars

\* ---- a caller that shrinks back what it has just grown, on an allocated
\* ---- buffer ---------------------------------------------------------------
\* grow( k ); shrink( k );
GrowShrink ==
    /\ Running /\ CanMalloc /\ state = "Allocated"
    /\ \E k \in 0 .. MaxArg, fail \in BOOLEAN, junk \in JunkValues :
           /\ _count + k <= MaxCount
           /\ \E g \in {grow(Self, Mem, k, fail, junk)} :
              \E r \in {IF g.out = "ok" THEN shrink(g.self, g.m, k) ELSE g} :
                  /\ Return("grow_shrink", k, r)
                  /\ UNCHANGED <<state, valid>>
                  /\ given' = <<>>
                  /\ UNCHANGED ones

\* grow( k ); shrink( k ); free();
GrowShrinkFree ==
    /\ Running /\ CanMalloc /\ state = "Allocated"
    /\ \E k \in 0 .. MaxArg, fail \in BOOLEAN, junk \in JunkValues :
           /\ _count + k <= MaxCount
           /\ \E g \in {grow(Self, Mem, k, fail, junk)} :
              \E h \in {IF g.out = "ok" THEN shrink(g.self, g.m, k) ELSE g} :
              \E r \in {IF h.out = "ok" THEN free(h.self, h.m) ELSE h} :
                  /\ Return("grow_shrink_free", k, r)
                  /\ state' = IF r.out = "ok" THEN "Freed" ELSE state
                  /\ UNCHANGED valid
                  /\ given' = <<>>
                  /\ UNCHANGED ones

NextRoundTrip ==
    \/ Next
    \/ GrowShrink
    \/ GrowShrinkFree

SpecRoundTrip == Init /\ [][NextRoundTrip]_vars

\* ---- vocabulary of the properties ----------------------------------------
AllocOps == {"allocate", "allocate_fill", "allocate_ptr", "allocate_list"}

HeapNow == [heap |-> heap, log |-> log, errs |-> errs]

\* the number of slots of the block __ptr owns, 0 when it owns none
OwnedSize == IF Live(HeapNow, __ptr) THEN heap[__ptr].size ELSE 0

\* the multiplier is one the documentation allows: m > 1.0
ValidMultiplier == kind = "Future" => multiplier[1] > multiplier[2]

\* the buffer is allocated and every call so far was within the contract
InContract == valid /\ state = "Allocated" /\ ValidMultiplier

IsDtor(e) == e.op = "dtor"

Dtors == SelectSeq(log, IsDtor)

\* ceil( m * n ) and floor( m * n ) for a rational m
CeilMul(mul, n) == ((mul[1] * n) + mul[2] - 1) \div mul[2]

FloorMul(mul, n) == (mul[1] * n) \div mul[2]

\* ---- C1 ------------------------------------------------------------------
\* C1: exact-fit strategy: in every state reached by allocate followed by
\* valid grow, shrink and resize calls, capacity() == count().
C1_ExactFitCapacityIsCount ==
    (kind = "Std" /\ valid /\ state = "Allocated") => _cap = _count

\* ---- C2 ------------------------------------------------------------------
\* C2: when malloc cannot supply the block, allocate and grow signal the
\* failure and leave count(), capacity(), the pointer and the elements as
\* they were before the call.
C2_FailedAllocationChangesNothing ==
    [][(valid' /\ ValidMultiplier /\ last'.out = "AllocException")
          => (__ptr' = __ptr /\ _count' = _count /\ _cap' = _cap
              /\ heap' = heap)]_vars

\* ---- C3 ------------------------------------------------------------------
\* C3: debug build: free() on a buffer already freed, with no allocate in
\* between, stops at the check in free: nothing is destructed and no block
\* is released again, whatever the count was at the first free.
C3_DoubleFreeDetected ==
    [][(debug /\ state = "Freed" /\ last'.op = "free")
          => (last'.out = "halt" /\ halted' /\ log' = <<>> /\ heap' = heap
              /\ errs' = errs)]_vars

C3_Witness ==
    /\ debug /\ state = "Freed" /\ halted
    /\ last.op = "free" /\ last.out = "halt"
    /\ _count = 0 /\ Len(heap) >= 1

\* ---- C4 ------------------------------------------------------------------
\* C4: debug build: an allocate overload called on an allocated buffer, with
\* no free in between, stops at a check instead of replacing the pointer.
C4_DoubleAllocateDetected ==
    [][(debug /\ ValidMultiplier /\ state = "Allocated"
        /\ last'.op \in AllocOps)
          => (last'.out = "halt" /\ __ptr' = __ptr)]_vars

\* ---- C5 ------------------------------------------------------------------
\* C5: debug build: shrink(k) with k > count() stops with a diagnostic; it
\* never returns normally.
C5_ShrinkPastZeroHalts ==
    [][(debug /\ state = "Allocated" /\ last'.op = "shrink"
        /\ last'.arg > _count)
          => last'.out = "halt"]_vars

\* ---- C6 ------------------------------------------------------------------
\* C6: in every state reached by allocate and valid grow/shrink/resize calls,
\* exactly the slots [0, count()) of the owned block hold a constructed
\* element, no slot in [count(), capacity()) or elsewhere in the block does,
\* and no step constructed, destructed or read a slot that is not there.
C6_ExactlyPrefixConstructed ==
    InContract =>
        /\ errs = {}
        /\ _count <= OwnedSize
        /\ \A i \in 0 .. OwnedSize - 1 :
               Constructed(HeapNow, __ptr, i) <=> i < _count
        /\ \A i \in _count .. _cap - 1 : ~Constructed(HeapNow, __ptr, i)

C6_Witness ==
    /\ InContract /\ kind = "Future"
    /\ last.op = "grow" /\ last.out = "ok"
    /\ Len(heap) >= 2 /\ _count >= 2 /\ _count < _cap

\* ---- C7 ------------------------------------------------------------------
\* C7: over every valid sequence, every element constructed is destructed
\* exactly once and before its block is released, and every block obtained
\* is released exactly once: while allocated the only live block is the
\* owned one, after free() no block is live.  free() destructs count()
\* elements and then calls ::free once, on the owned pointer.
C7_PairedConstructDestructRelease ==
    /\ [](( valid /\ ValidMultiplier) =>
            /\ errs = {}
            /\ \A b \in 1 .. Len(heap) :
                   heap[b].live => (state = "Allocated" /\ b = __ptr)
            /\ (last.op = "free" /\ last.out = "ok") =>
                   /\ Len(log) = _count + 1
                   /\ \A k \in 1 .. _count : log[k].op = "dtor"
                   /\ log[Len(log)].op = "free")
    /\ [][(valid' /\ ValidMultiplier /\ last'.op = "free" /\ last'.out = "ok")
             => /\ log'[Len(log')].p = __ptr
                /\ \A b \in 1 .. Len(heap) :
                       (heap[b].live /\ ~heap'[b].live) <=> b = __ptr]_vars

C7_Witness ==
    /\ valid /\ ValidMultiplier /\ state = "Freed"
    /\ last.op = "free" /\ last.out = "ok"
    /\ Len(heap) >= 2 /\ _count >= 2

\* ---- C8 ------------------------------------------------------------------
\* C8 (as claimed): amortized strategy: after allocate(n) capacity() is
\* ceil(m * n), and after a grow(k) issued when count + k exceeds the
\* capacity, capacity() is ceil(m * (count + k)).
C8_CapacityIsCeil ==
    [][(kind = "Future" /\ ValidMultiplier /\ valid' /\ last'.out = "ok")
          => /\ last'.op \in AllocOps
                    => _cap' = CeilMul(multiplier, last'.arg)
             /\ (last'.op = "grow" /\ _count + last'.arg > _cap)
                    => _cap' = CeilMul(multiplier, _count + last'.arg)]_vars

\* C8 (amended): the capacity is the product truncated to an integer:
\* floor(m * n) after allocate(n), floor(m * (count + k)) after a grow(k)
\* issued when count + k exceeds the capacity.
C8_CapacityIsFloor ==
    [][(kind = "Future" /\ ValidMultiplier /\ valid' /\ last'.out = "ok")
          => /\ last'.op \in AllocOps
                    => _cap' = FloorMul(multiplier, last'.arg)
             /\ (last'.op = "grow" /\ _count + last'.arg > _cap)
                    => _cap' = FloorMul(multiplier, _count + last'.arg)]_vars

C8_Witness ==
    /\ kind = "Future" /\ multiplier = <<3, 2>> /\ valid
    /\ last.op = "grow" /\ last.out = "ok"
    /\ log # <<>> /\ log[1].op = "malloc"
    /\ _count = 3 /\ _cap = 4

\* ---- C9 ------------------------------------------------------------------
\* C9: amortized strategy with m > 1.0: in every state reached by allocate
\* and valid grow/shrink/resize calls, 0 <= count() <= capacity() and the
\* block reserved has exactly capacity() slots.
C9_CountWithinCapacity ==
    (kind = "Future" /\ InContract) =>
        /\ 0 <= _count
        /\ _count <= _cap
        /\ OwnedSize = _cap

C9_Witness ==
    /\ kind = "Future" /\ InContract
    /\ last.op = "shrink" /\ last.out = "ok"
    /\ Len(heap) >= 2 /\ _count >= 1 /\ _count + 2 <= _cap

\* ---- C10 -----------------------------------------------------------------
\* C10 (as claimed): the elements destructed by shrink(k) and by free() are
\* destructed in strictly descending index order, index count-1 first.
C10_DestructionDescending ==
    (valid /\ ValidMultiplier /\ last.op \in {"shrink", "free"}
     /\ last.out = "ok") =>
        \A k \in 1 .. Len(Dtors) :
            Dtors[k].i = (IF last.op = "free" THEN _count
                          ELSE _count + Len(Dtors)) - k

\* C10 (amended): shrink(k) destructs in strictly descending index order,
\* index count-1 first; free() destructs the count() elements in strictly
\* ascending index order, index 0 first.
C10_ShrinkDescendingFreeAscending ==
    (valid /\ ValidMultiplier /\ last.op \in {"shrink", "free"}
     /\ last.out = "ok") =>
        /\ last.op = "shrink" =>
               /\ Len(Dtors) = last.arg
               /\ \A k \in 1 .. Len(Dtors) :
                      Dtors[k].i = _count + Len(Dtors) - k
        /\ last.op = "free" =>
               /\ Len(Dtors) = _count
               /\ \A k \in 1 .. Len(Dtors) : Dtors[k].i = k - 1

C10_Witness ==
    /\ valid /\ ValidMultiplier /\ last.op = "free" /\ last.out = "ok"
    /\ Len(Dtors) >= 3

\* ---- a caller that appends to an empty buffer -----------------------------
\* allocate( 0 ) on a new buffer: the start of the append scenario
TenAllocate ==
    /\ Running /\ state = "Unallocated"
    /\ \E r \in {allocate(Self, Mem, 0, InitDefault(0), FALSE)} :
           /\ Return("allocate", 0, r) /\ Allocated(r)
           /\ given' = <<>>
           /\ ones' = IF r.out = "ok" THEN 0 ELSE 0 - 1

\* grow( k ); ones counts the grow( 1 ) calls that succeeded one after the
\* other since allocate( 0 ), and is -1 once any other call has come between
TenGrow ==
    /\ Running /\ state = "Allocated" /\ Len(heap) < Appends
    /\ \E k \in 0 .. MaxArg, fail \in BOOLEAN, junk \in JunkValues :
           /\ _count + k <= Appends
           /\ \E r \in {grow(Self, Mem, k, fail, junk)} :
                  /\ Return("grow", k, r)
                  /\ UNCHANGED <<state, valid>>
                  /\ given' = <<>>
                  /\ ones' = IF ones >= 0 /\ k = 1 /\ r.out = "ok"
                             THEN ones + 1 ELSE 0 - 1

NextTen ==
    \/ TenAllocate
    \/ TenGrow

SpecTen == Init /\ [][NextTen]_vars

\* ---- C11 -----------------------------------------------------------------
\* the value of element i of block p in heap h, NoElem where there is none
Elem(h, p, i) ==
    IF Constructed([heap |-> h, log |-> <<>>, errs |-> {}], p, i)
    THEN h[p].elems[i + 1] ELSE NoElem

IsNew(e) == e.op = "new"

News == SelectSeq(log, IsNew)

\* C11: debug build: grow, shrink, resize or free on a buffer that was never
\* allocated, and grow, shrink, resize or free on a buffer that has been
\* freed, stop at a check instead of executing.
C11_InvalidTransitionDetected ==
    [][(debug /\ ValidMultiplier /\ valid /\ state # "Allocated"
        /\ last'.op \in {"grow", "shrink", "resize", "free"})
          => last'.out = "halt"]_vars

\* ---- C12 -----------------------------------------------------------------
\* C12 (as claimed): debug build: constructing the amortized strategy halts
\* when m <= 1.0 and is accepted when m > 1.0.
C12_MultiplierNotAboveOneHalts ==
    (kind = "Future" /\ debug) =>
        IF multiplier[1] <= multiplier[2]
        THEN halted /\ last.op = "new"
        ELSE ~(halted /\ last.op = "new")

\* C12 (amended): debug build: constructing the amortized strategy halts
\* when m < 1.0 and is accepted when m >= 1.0, m == 1.0 included.
C12_MultiplierBelowOneHalts ==
    (kind = "Future" /\ debug) =>
        IF multiplier[1] < multiplier[2]
        THEN halted /\ last.op = "new"
        ELSE ~(halted /\ last.op = "new")

C12_Witness ==
    /\ kind = "Future" /\ debug /\ multiplier = <<1, 1>>
    /\ state = "Allocated" /\ valid /\ _count = 2 /\ _cap = 2

\* ---- C13 -----------------------------------------------------------------
\* C13: after allocate(n, ...) count() == n and element i holds the value the
\* overload names for it (T(), the fill value, the i-th source element),
\* for all i < n; the elements are constructed in ascending index order.
C13_AllocateConstructsGiven ==
    (valid /\ ValidMultiplier /\ last.op \in AllocOps /\ last.out = "ok") =>
        /\ _count = last.arg
        /\ Len(given) = last.arg
        /\ \A i \in 0 .. _count - 1 : Elem(heap, __ptr, i) = given[i + 1]
        /\ last.op = "allocate" =>
               \A i \in 0 .. _count - 1 : Elem(heap, __ptr, i) = DefaultT
        /\ Len(News) = _count
        /\ \A k \in 1 .. Len(News) : News[k].i = k - 1 /\ News[k].p = __ptr

C13_Witness ==
    /\ valid /\ ValidMultiplier /\ kind = "Future"
    /\ last.op = "allocate_list" /\ last.out = "ok"
    /\ _count = 2 /\ Elem(heap, __ptr, 0) # Elem(heap, __ptr, 1)

\* ---- C14 -----------------------------------------------------------------
\* C14: after grow(k) on an allocated buffer with count c, count() == c + k,
\* the elements [0, c) have the values they had before the call and the
\* elements [c, c + k) are default-constructed, with or without reallocation.
C14_GrowKeepsAndAppendsDefaults ==
    [][(InContract /\ last'.op = "grow" /\ last'.out = "ok")
          => /\ _count' = _count + last'.arg
             /\ \A i \in 0 .. _count - 1 :
                    /\ Elem(heap, __ptr, i) # NoElem
                    /\ Elem(heap', __ptr', i) = Elem(heap, __ptr, i)
             /\ \A i \in _count .. _count' - 1 :
                    Elem(heap', __ptr', i) = DefaultT
             /\ errs' = {}]_vars

C14_Witness ==
    /\ InContract /\ last.op = "grow" /\ last.out = "ok"
    /\ log # <<>> /\ log[1].op = "malloc"
    /\ _count = 3 /\ last.arg = 1
    /\ Elem(heap, __ptr, 0) = 1 /\ Elem(heap, __ptr, 1) = 0
    /\ Elem(heap, __ptr, 2) = DefaultT

\* ---- C16 -----------------------------------------------------------------
\* C16: resize(n) on a buffer with count c leaves exactly the state that
\* grow(n - c) leaves when n > c, that shrink(c - n) leaves when n < c, and
\* the state it found when n == c: pointer, count, capacity, heap, memory
\* steps performed and outcome.
C16_ResizeIsGrowOrShrink ==
    [][(last'.op = "resize")
          => \E fail \in BOOLEAN, junk \in Values :
                 LET n == last'.arg
                     r == IF n > _count
                          THEN grow(Self, Mem, n - _count, fail, junk)
                          ELSE IF n < _count
                          THEN shrink(Self, Mem, _count - n)
                          ELSE Ret(Self, Mem, "ok")
                 IN /\ __ptr' = r.self.ptr
                    /\ _count' = r.self.count
                    /\ _cap' = r.self.cap
                    /\ heap' = r.m.heap
                    /\ log' = r.m.log
                    /\ errs' = r.m.errs
                    /\ last'.out = r.out
                    /\ (n = _count) => (log' = <<>> /\ heap' = heap)]_vars

C16_Witness ==
    /\ InContract /\ last.op = "resize" /\ last.out = "ok"
    /\ log # <<>> /\ log[1].op = "malloc" /\ Len(heap) >= 2
    /\ _count = 3 /\ last.arg = 3

\* ---- C18 -----------------------------------------------------------------
\* C18: amortized strategy: shrink(k) with k <= count() lowers count() by k
\* and destructs the k trailing elements; capacity(), the pointer and the
\* values of the elements [0, count - k) are unchanged and no block is
\* obtained or released.
C18_ShrinkFrame ==
    [][(kind = "Future" /\ InContract /\ last'.op = "shrink"
        /\ last'.arg <= _count)
          => /\ last'.out = "ok"
             /\ _count' = _count - last'.arg
             /\ _cap' = _cap
             /\ __ptr' = __ptr
             /\ Len(heap') = Len(heap)
             /\ \A b \in 1 .. Len(heap) :
                    /\ heap'[b].live = heap[b].live
                    /\ heap'[b].size = heap[b].size
             /\ \A i \in 0 .. _count' - 1 :
                    /\ Elem(heap, __ptr, i) # NoElem
                    /\ Elem(heap', __ptr', i) = Elem(heap, __ptr, i)
             /\ \A i \in _count' .. _count - 1 :
                    Elem(heap', __ptr', i) = NoElem
             /\ Len(log') = last'.arg
             /\ \A k \in 1 .. Len(log') : log'[k].op = "dtor"
             /\ errs' = {}]_vars

C18_Witness ==
    /\ kind = "Future" /\ InContract
    /\ last.op = "shrink" /\ last.out = "ok" /\ last.arg = 2
    /\ _count = 1 /\ _cap >= 4 /\ Elem(heap, __ptr, 0) = 1

\* ---- C19 -----------------------------------------------------------------
\* C19: a reallocating grow (every exact-fit grow, an amortized grow with
\* count + k > capacity) performs, in this order: malloc of the new block;
\* for i = 0 .. count-1 a read of old element i and its copy construction
\* at i of the new block; the destruction of every old element; ::free of
\* the old block; the default construction of elements count .. count+k-1
\* of the new block in ascending order.  No step touches an element that
\* is no longer there.
C19_ReallocatingGrowOrder ==
    [][(InContract /\ last'.op = "grow" /\ last'.out = "ok"
        /\ (kind = "Std" \/ _count + last'.arg > _cap))
          => LET c == _count
                 k == last'.arg
                 L == log'
             IN /\ Len(L) = 2 + 3 * c + k
                /\ L[1].op = "malloc" /\ L[1].p = __ptr' /\ __ptr' # __ptr
                /\ \A i \in 0 .. c - 1 :
                       /\ L[2 + 2 * i] = Ev("read", __ptr, i, NoElem)
                       /\ L[3 + 2 * i] =
                              Ev("new", __ptr', i, Elem(heap, __ptr, i))
                /\ \A j \in 0 .. c - 1 :
                       /\ L[2 + 2 * c + j].op = "dtor"
                       /\ L[2 + 2 * c + j].p = __ptr
                /\ {L[2 + 2 * c + j].i : j \in 0 .. c - 1} = 0 .. c - 1
                /\ L[2 + 3 * c] = Ev("free", __ptr, 0, NoElem)
                /\ \A j \in 0 .. k - 1 :
                       L[3 + 3 * c + j] = Ev("new", __ptr', c + j, DefaultT)
                /\ errs' = {}]_vars

C19_Witness ==
    /\ InContract /\ kind = "Std" /\ last.op = "grow" /\ last.out = "ok"
    /\ last.arg = 1 /\ _count = 3 /\ Len(log) = 9

\* ---- C15 -----------------------------------------------------------------
\* C15: grow(k) immediately followed by shrink(k) returns count() to its
\* value before the grow and leaves the elements [0, count) with their
\* values, the k grown elements being gone; when free() follows, every
\* element that was ever at an index of the final block, surviving or grown
\* and shrunk, is destructed exactly once, and nothing that is not there is
\* destructed or released.
C15_GrowShrinkRoundTrip ==
    /\ [][(InContract /\ last'.op = "grow_shrink" /\ last'.out = "ok")
            => /\ _count' = _count
               /\ \A i \in 0 .. _count - 1 :
                      /\ Elem(heap, __ptr, i) # NoElem
                      /\ Elem(heap', __ptr', i) = Elem(heap, __ptr, i)
               /\ \A i \in _count .. _count + last'.arg - 1 :
                      Elem(heap', __ptr', i) = NoElem
               /\ errs' = {}]_vars
    /\ [][(InContract /\ last'.op = "grow_shrink_free" /\ last'.out = "ok")
            => LET L == log'
                   final == L[Len(L)].p
               IN /\ L[Len(L)].op = "free"
                  /\ \A i \in 0 .. _count + last'.arg - 1 :
                         Cardinality({n \in 1 .. Len(L) :
                                        L[n] = Ev("dtor", final, i, NoElem)})
                             = 1
                  /\ \A n \in 1 .. Len(L) :
                         (L[n].op = "dtor" /\ L[n].p = final)
                             => L[n].i < _count + last'.arg
                  /\ (final # NULL) => ~heap'[final].live
                  /\ errs' = {}]_vars

C15_Witness ==
    /\ valid /\ ValidMultiplier /\ state = "Freed"
    /\ last.op = "grow_shrink_free" /\ last.out = "ok" /\ last.arg = 2
    /\ Len(SelectSeq(log, IsDtor)) >= 4

\* ---- C17 -----------------------------------------------------------------
\* C17: from allocate(0), ten consecutive grow(1) calls obtain a block on
\* every call with the exact-fit strategy and strictly fewer than ten times
\* with the amortized strategy at m = 1.5; an amortized grow(k) obtains a
\* block if and only if count + k exceeds the capacity.
C17_TenAppendsFewerBlocks ==
    /\ []((ones = Appends /\ kind = "Std") => Len(heap) = Appends)
    /\ []((ones = Appends /\ kind = "Future" /\ multiplier = <<3, 2>>)
             => Len(heap) < Appends)
    /\ [][(kind = "Std" /\ ones >= 0 /\ ones' = ones + 1)
             => Len(heap') = Len(heap) + 1]_vars
    /\ [][(kind = "Future" /\ InContract
           /\ last'.op = "grow" /\ last'.out = "ok")
             => ((Len(heap') = Len(heap) + 1 /\ __ptr' # __ptr)
                    <=> (_count + last'.arg > _cap))]_vars
    /\ [][(kind = "Future" /\ InContract
           /\ last'.op = "grow" /\ last'.out = "ok"
           /\ ~(_count + last'.arg > _cap))
             => (heap' # heap => Len(heap') = Len(heap)) /\ __ptr' = __ptr]_vars

C17_Witness ==
    /\ ones = Appends /\ kind = "Future" /\ multiplier = <<3, 2>>
    /\ Len(heap) = 4 /\ _count = 10 /\ _cap = 10

\* ---- C20 -----------------------------------------------------------------
\* the buffer as its constructor leaves it, and a heap with nothing in it
Fresh == [ptr |-> NULL, count |-> 0, cap |-> 0]

FreshMem == [heap |-> <<>>, log |-> <<>>, errs |-> {}]

\* C20: in a debug build an allocate overload called after free() does not
\* halt, and when it succeeds the buffer has the count(), the capacity() and
\* the elements that the same call gives on a buffer that was never
\* allocated, whatever was done before the free.
C20_AllocateAfterFreeLikeFresh ==
    [][(debug /\ valid /\ ValidMultiplier /\ state = "Freed"
        /\ last'.op \in AllocOps)
          => /\ last'.out # "halt"
             /\ (last'.out = "ok") =>
                    LET n == last'.arg
                        f == allocate(Fresh, FreshMem, n,
                                      [i \in 0 .. n - 1 |-> given'[i + 1]],
                                      FALSE)
                    IN /\ _count' = f.self.count
                       /\ _cap' = f.self.cap
                       /\ \A i \in 0 .. n - 1 :
                              Elem(heap', __ptr', i) =
                                  Elem(f.m.heap, f.self.ptr, i)]_vars

\* what remains of C20 when the capacity is left out
C20_AllocateAfterFreeCountAndElements ==
    [][(debug /\ valid /\ ValidMultiplier /\ state = "Freed"
        /\ last'.op \in AllocOps)
          => /\ last'.out # "halt"
             /\ (last'.out = "ok") =>
                    LET n == last'.arg
                        f == allocate(Fresh, FreshMem, n,
                                      [i \in 0 .. n - 1 |-> given'[i + 1]],
                                      FALSE)
                    IN /\ _count' = f.self.count
                       /\ (kind = "Future") => _cap' = f.self.cap
                       /\ \A i \in 0 .. n - 1 :
                              Elem(heap', __ptr', i) =
                                  Elem(f.m.heap, f.self.ptr, i)]_vars

====
